---------------------------- MODULE Spec2Model ----------------------------
(***************************************************************************)
(* KeepAlivebot (main.py): the persisted broadcast state, the owner        *)
(* control surface, the per-user pending intent and the reschedulable      *)
(* periodic broadcast job, as a state machine.                             *)
(*                                                                         *)
(* Granularity.  python-telegram-bot processes updates one at a time      *)
(* (ApplicationBuilder is used without concurrent_updates), so a handler   *)
(* is one action.  Job callbacks run as tasks of their own: a periodic     *)
(* broadcast is one action for its synchronous prefix (the reads of        *)
(* main.py:412-416) and one action per awaited send, so handlers           *)
(* interleave with an in-flight periodic fan-out.  Storage.save never      *)
(* suspends (its lock is never held across an await), so a mutation and    *)
(* the save that follows it are one step.                                  *)
(***************************************************************************)
EXTENDS Integers, Sequences, FiniteSets, TLC

\* ---------------------------------------------------------------- bounds

\* run_repeating calls explored (the one of build_application included).
MaxJobs == 2
\* Storage.save calls that the environment makes fail (OSError).
MaxSaveFailures == 1
\* Seconds that the clock of SpecClock follows a job after its installation.
MaxElapsed == 900

\* ------------------------------------------------------- program constants

BROADCAST_INTERVAL_SECONDS == 420
DefaultMessage == "Hello everyone! Keeping the group active."
MaxMinutes == 1440
FirstDelay == 60
\* The granularity of the clock: every first delay and every interval that
\* SpecClock schedules is a multiple of it.
ClockStep == 60

\* ------------------------------------------------------------- the inputs

\* Config.owner_ids, and the users that send updates.
owner_ids == {1}
Users == {1, 2}
\* No user (a job callback's step).
NoUser == 0

\* Group chats the bot is added to and removed from: the one of Spec and
\* SpecAuth, and the ones of SpecBroadcast.
ChatIds == {-1001}
BroadcastChatIds == {-1001, -1002, -1003}
\* chat.title as the platform reports it ("" for a chat without a title).
Titles == {"A"}
\* The chats of SpecTick.
TickChatIds == {-1001, -1002}
\* The chats and the titles of SpecRegistry.
RegistryChatIds == {-1001, -1002}
RegistryTitles == {"A", "B", ""}
ChatTypes == {"private", "group", "supergroup"}
Statuses == {"member", "administrator", "left", "kicked", "restricted"}

\* Raw message texts, before strip().
RawTexts == {"  ", " hey ", "abc", "0", "1", "1440", "1441"}
\* Of these, the ones sent as a reply to a message prompt.
MessageTexts == {"  ", " hey "}

\* context.user_data["awaiting"]; None when the key is absent.
None == "None"
Intents == {None, "edit_msg", "change_interval", "send_now_custom"}

\* callback_data of a button press (the handler's pattern is ^owner:).
CallbackData == {"owner:send_now", "owner:edit_msg", "owner:change_interval",
                 "owner:toggle", "owner:list_groups", "owner:refresh",
                 "owner:other"}

\* ------------------------------------------------------------ conversions

\* str(chat_id): the key of a chat in BotState.groups.
str(chat_id) ==
  CASE chat_id = -1001 -> "-1001"
    [] chat_id = -1002 -> "-1002"
    [] chat_id = -1003 -> "-1003"

\* int(chat_key), as the fan-out loops apply it to a key of groups.
int(chat_key) ==
  CASE chat_key = "-1001" -> -1001
    [] chat_key = "-1002" -> -1002
    [] chat_key = "-1003" -> -1003

\* text.strip()
strip(raw) ==
  CASE raw = "  " -> ""
    [] raw = " hey " -> "hey"
    [] OTHER -> raw

\* Whether int(text) returns (it raises ValueError otherwise).
IsIntText(text) == text \in {"0", "1", "1440", "1441"}

\* int(text), for a text it accepts.
IntOfText(text) ==
  CASE text = "0" -> 0
    [] text = "1" -> 1
    [] text = "1440" -> 1440
    [] text = "1441" -> 1441

\* arg.lower()
lower(arg) ==
  CASE arg = "ON" -> "on"
    [] arg = "OFF" -> "off"
    [] OTHER -> arg

\* --------------------------------- BotState.groups: an insertion-ordered dict

DictKeys(d) == [i \in 1..Len(d) |-> d[i].key]

HasKey(d, k) == \E i \in 1..Len(d) : d[i].key = k

\* d.get(k): None for a missing key.
DictGet(d, k) ==
  IF HasKey(d, k) THEN d[CHOOSE i \in 1..Len(d) : d[i].key = k].title ELSE None

\* d[k] = v: an existing key keeps its place, a new one goes last.
DictSet(d, k, v) ==
  IF HasKey(d, k)
  THEN [i \in 1..Len(d) |-> IF d[i].key = k THEN [key |-> k, title |-> v] ELSE d[i]]
  ELSE Append(d, [key |-> k, title |-> v])

\* d.pop(k, None)
DictPop(d, k) == SelectSeq(d, LAMBDA e : e.key # k)

\* ----------------------------------------------------------------- BotState

BotState ==
  [groups |-> <<>>,
   regular_message |-> DefaultMessage,
   broadcasts_enabled |-> TRUE,
   interval_seconds |-> BROADCAST_INTERVAL_SECONDS]

\* ------------------------------------------------------- the state file

\* A JSON number, or a JSON string that int() rejects.
JInt(n) == [t |-> "int", n |-> n]
JText == [t |-> "str", n |-> 0]

\* The file at STATE_PATH.  kind: "missing" (no file), "garbage" (not JSON),
\* "object" (a JSON object: absent names the keys it lacks).
FileMissing ==
  [kind |-> "missing", absent |-> {}, groups |-> <<>>, regular_message |-> "",
   broadcasts_enabled |-> FALSE, interval_seconds |-> JInt(0)]

FileGarbage == [FileMissing EXCEPT !.kind = "garbage"]

\* json.dump of the four fields (main.py:87-97).
JsonDump(st) ==
  [kind |-> "object", absent |-> {}, groups |-> st.groups,
   regular_message |-> st.regular_message,
   broadcasts_enabled |-> st.broadcasts_enabled,
   interval_seconds |-> JInt(st.interval_seconds)]

AllKeys == {"groups", "regular_message", "broadcasts_enabled", "interval_seconds"}

\* The state files a start may find: in Spec, and in SpecBoot.
FreshFiles == {FileMissing, FileGarbage}

InitialFiles ==
  { FileMissing,
    FileGarbage,
    [JsonDump(BotState) EXCEPT !.absent = AllKeys],
    [JsonDump(BotState) EXCEPT !.broadcasts_enabled = FALSE,
                               !.groups = <<[key |-> "-1001", title |-> "A"]>>],
    [JsonDump(BotState) EXCEPT !.interval_seconds = JInt(5)],
    [JsonDump(BotState) EXCEPT !.interval_seconds = JText] }

\* data.get(name, default)
JsonGet(file, name, default) ==
  IF name \in file.absent THEN default ELSE file[name]

\* Whether the try block of load raises: json.load on a file that is not
\* JSON, or int() on a value that is no number.
LoadRaises(file) ==
  \/ file.kind = "garbage"
  \/ JsonGet(file, "interval_seconds", JInt(BROADCAST_INTERVAL_SECONDS)).t # "int"

\* The BotState that load builds from a file whose try block does not raise.
LoadedState(file) ==
  [groups |-> JsonGet(file, "groups", <<>>),
   regular_message |-> JsonGet(file, "regular_message", DefaultMessage),
   broadcasts_enabled |-> JsonGet(file, "broadcasts_enabled", TRUE),
   interval_seconds |->
     JsonGet(file, "interval_seconds", JInt(BROADCAST_INTERVAL_SECONDS)).n]

\* ---------------------------------------------------------------- the state

VARIABLES
  pc,             \* main(): "start", "loaded", "running", "crashed"
  state,          \* Storage.state
  disk,           \* the file at Storage.path
  awaiting,       \* context.user_data[user]["awaiting"]
  jobs,           \* the job queue's live jobs
  broadcast_job,  \* app.bot_data["broadcast_job"]: a job id, 0 for None
  njobs,          \* run_repeating calls so far
  tick,           \* the in-flight periodic_broadcast run
  faults_left,    \* saves that the environment may still make fail
  saving,         \* the Storage.save in progress, and the file at path + ".tmp"
  out             \* what the latest step sent and raised

vars == <<pc, state, disk, awaiting, jobs, broadcast_job, njobs, tick,
          faults_left, saving, out>>

\* No save in progress and no temporary file.  pc: "idle", "opened" (the
\* temporary file is open for writing), "written" (it is written and
\* closed); prev: the state file as the save in progress found it.
IdleSaving == [pc |-> "idle", tmp |-> FileMissing, prev |-> FileMissing]

IdleTick == [pc |-> "idle", job |-> 0, snap |-> <<>>, i |-> 1, text |-> ""]

\* The my_chat_member update a step served: none.
NoEvent == [chat |-> 0, type |-> "", status |-> "", title |-> ""]

\* The outputs of one step: the handler or job, the user it serves, the
\* messages sent to that user (for a membership update, the line logged
\* after the save), the attempted group sends, the count the
\* broadcast reports, the exception that left the handler ("" for none) and,
\* for a job callback, the job that fired; for a membership update, the
\* update.
Out(op, actor, replies, sent, count, exc) ==
  [op |-> op, actor |-> actor, replies |-> replies, sent |-> sent,
   count |-> count, exc |-> exc, job |-> 0, event |-> NoEvent]

NoOut == Out("", NoUser, <<>>, <<>>, 0, "")

\* Storage.__init__, before main() calls load.
Init ==
  /\ pc = "start"
  /\ state = BotState
  /\ disk \in FreshFiles
  /\ awaiting = [u \in Users |-> None]
  /\ jobs = {}
  /\ broadcast_job = 0
  /\ njobs = 0
  /\ tick = IdleTick
  /\ faults_left = MaxSaveFailures
  /\ saving = IdleSaving
  /\ out = NoOut

\* ------------------------------------------------------------------ Storage

\* The outcomes of one Storage.save: TRUE when the file is replaced, FALSE
\* when open/json.dump/os.replace raises OSError.
SaveOutcomes == {TRUE} \cup (IF faults_left > 0 THEN {FALSE} ELSE {})

\* A save that writes the temporary file and never replaces the state file.
save_without_replace(st, ok) ==
  /\ disk' = disk
  /\ faults_left' = IF ok THEN faults_left ELSE faults_left - 1
  /\ saving' = IF ok THEN [saving EXCEPT !.tmp = JsonDump(st)] ELSE saving

\* Storage.save of st with outcome ok, run to its end: the temporary file
\* is written and replaces the state file (none is left), or open() raises
\* and both files stay as they are.
save(st, ok) ==
  /\ disk' = IF ok THEN JsonDump(st) ELSE disk
  /\ faults_left' = IF ok THEN faults_left ELSE faults_left - 1
  /\ saving' = IF ok THEN [saving EXCEPT !.tmp = FileMissing] ELSE saving

\* Storage.load, called once by main().  A save that raises leaves load and
\* run_until_complete with the exception: the process ends.
load ==
  /\ pc = "start"
  /\ saving.pc = "idle"
  /\ IF disk.kind = "missing"
     THEN \E ok \in SaveOutcomes :
            /\ save(state, ok)
            /\ state' = state
            /\ pc' = IF ok THEN "loaded" ELSE "crashed"
            /\ out' = Out("load", NoUser, <<>>, <<>>, 0, IF ok THEN "" ELSE "OSError")
     ELSE /\ state' = IF LoadRaises(disk) THEN state ELSE LoadedState(disk)
          /\ pc' = "loaded"
          /\ out' = Out("load", NoUser, <<>>, <<>>, 0, "")
          /\ UNCHANGED <<disk, faults_left, saving>>
  /\ UNCHANGED <<awaiting, jobs, broadcast_job, njobs, tick>>


\* ------------------------------------------------------------ the job queue

\* A reschedule that installs the new job and leaves the old one live.
schedule_removal_forgotten(js, id) == js

\* Job.schedule_removal: the job leaves the queue and fires no more.  The
\* job that bot_data holds is in the queue, so the call does not raise.
schedule_removal(js, id) == {j \in js : j.id # id}

\* A run_repeating without first: the first run is one interval from now.
run_repeating_first_is_interval(js, id, interval) ==
  js \cup {[id |-> id, interval |-> interval, first |-> interval,
            due |-> interval, age |-> 0, runs |-> 0]}

\* JobQueue.run_repeating(periodic_broadcast, interval, first=60): the job
\* is due first seconds from now.  age is the time since the call and runs
\* the number of runs so far; both stay 0 where time is left out.
run_repeating(js, id, interval) ==
  js \cup {[id |-> id, interval |-> interval, first |-> FirstDelay,
            due |-> FirstDelay, age |-> 0, runs |-> 0]}

\* reschedule_broadcast_job (main.py:421-433).
reschedule_broadcast_job(interval_seconds) ==
  /\ jobs' = run_repeating(
               IF broadcast_job # 0
               THEN schedule_removal(jobs, broadcast_job)
               ELSE jobs,
               njobs + 1, interval_seconds)
  /\ broadcast_job' = njobs + 1
  /\ njobs' = njobs + 1

\* build_application: the handlers are registered and the job is scheduled
\* with the loaded interval; run_polling follows.
build_application ==
  /\ pc = "loaded"
  /\ reschedule_broadcast_job(state.interval_seconds)
  /\ pc' = "running"
  /\ out' = Out("build_application", NoUser, <<>>, <<>>, 0, "")
  /\ UNCHANGED <<state, disk, awaiting, tick, faults_left, saving>>

\* --------------------------------------------------------------- the sends

\* A send whose exception is not caught.
safe_send_raises(chat_id, text, ok) ==
  [sent |-> [chat |-> chat_id, text |-> text, ok |-> ok],
   exc |-> IF ok THEN "" ELSE "TelegramError"]

\* safe_send: one attempted send; ok is whether bot.send_message returns.
\* The exception of a failed send is logged and goes no further.
safe_send(chat_id, text, ok) ==
  [sent |-> [chat |-> chat_id, text |-> text, ok |-> ok], exc |-> ""]

\* The fan-out loop of send_broadcast and of the send-now reply
\* (main.py:368-372, 328-332) over the snapshot keys; failing is the set of
\* chats whose send fails.  acc: the attempts, the count and the exception
\* so far.
RECURSIVE FanOut(_, _, _, _)
FanOut(keys, text, failing, acc) ==
  IF keys = <<>>
  THEN acc
  ELSE LET r == safe_send(int(Head(keys)), text, int(Head(keys)) \notin failing)
       IN IF r.exc # ""
          THEN [acc EXCEPT !.sent = Append(@, r.sent), !.exc = r.exc]
          ELSE FanOut(Tail(keys), text, failing,
                      [acc EXCEPT !.sent = Append(@, r.sent), !.count = @ + 1])

NoAttempts == [sent |-> <<>>, count |-> 0, exc |-> ""]

\* The chats behind the keys of groups: a send to any of them may fail.
Chats(groups) == {int(groups[i].key) : i \in 1..Len(groups)}

\* ------------------------------------------------------------ authorization

\* A gate that lets every user through.
is_owner_anyone(user_id) == TRUE

is_owner(user_id) == user_id \in owner_ids

\* show_owner_menu: the panel, for an owner only.
show_owner_menu(user_id) == IF is_owner(user_id) THEN <<"menu">> ELSE <<>>

\* ------------------------------------------------------- periodic_broadcast

\* A fire that does not read the enabled flag.
periodic_broadcast_unconditional ==
  /\ pc = "running"
  /\ tick.pc = "idle"
  /\ \E j \in jobs :
       /\ tick' = IF state.groups # <<>>
                  THEN [pc |-> "sending", job |-> j.id,
                        snap |-> DictKeys(state.groups), i |-> 1,
                        text |-> state.regular_message]
                  ELSE IdleTick
       /\ out' = [Out("periodic_broadcast", NoUser, <<>>, <<>>, 0, "")
                    EXCEPT !.job = j.id]
  /\ UNCHANGED <<pc, state, disk, awaiting, jobs, broadcast_job, njobs,
                 faults_left, saving>>

\* A live job fires, at whatever time that is: the enabled flag, the message
\* and the keys are read, and the first send is awaited.  One run is in
\* flight at a time.
periodic_broadcast ==
  /\ pc = "running"
  /\ tick.pc = "idle"
  /\ \E j \in jobs :
       /\ tick' = IF state.broadcasts_enabled /\ state.groups # <<>>
                  THEN [pc |-> "sending", job |-> j.id,
                        snap |-> DictKeys(state.groups), i |-> 1,
                        text |-> state.regular_message]
                  ELSE IdleTick
       /\ out' = [Out("periodic_broadcast", NoUser, <<>>, <<>>, 0, "")
                    EXCEPT !.job = j.id]
  /\ UNCHANGED <<pc, state, disk, awaiting, jobs, broadcast_job, njobs,
                 faults_left, saving>>

\* The job queue with its clock (SpecClock).  Time passes in steps of
\* ClockStep seconds, up to MaxElapsed seconds after a job was installed,
\* and not past the moment a job is due.
advance ==
  /\ pc = "running"
  /\ \A j \in jobs : j.due >= ClockStep /\ j.age < MaxElapsed
  /\ jobs' = {[j EXCEPT !.due = @ - ClockStep, !.age = @ + ClockStep] : j \in jobs}
  /\ out' = Out("advance", NoUser, <<>>, <<>>, 0, "")
  /\ UNCHANGED <<pc, state, disk, awaiting, broadcast_job, njobs, tick,
                 faults_left, saving>>

\* The job queue runs a job that is due: periodic_broadcast is called and
\* the job is due again one interval later.
run_due ==
  /\ pc = "running"
  /\ tick.pc = "idle"
  /\ \E j \in jobs :
       /\ j.due = 0
       /\ jobs' = (jobs \ {j}) \cup {[j EXCEPT !.due = j.interval, !.runs = @ + 1]}
       /\ tick' = IF state.broadcasts_enabled /\ state.groups # <<>>
                  THEN [pc |-> "sending", job |-> j.id,
                        snap |-> DictKeys(state.groups), i |-> 1,
                        text |-> state.regular_message]
                  ELSE IdleTick
       /\ out' = [Out("periodic_broadcast", NoUser, <<>>, <<>>, 0, "")
                    EXCEPT !.job = j.id]
  /\ UNCHANGED <<pc, state, disk, awaiting, broadcast_job, njobs,
                 faults_left, saving>>

\* A loop over the live registry: the key at the loop's position is read
\* at each iteration, and a registry that shrank under it raises.
periodic_send_live_keys ==
  /\ tick.pc = "sending"
  /\ \E ok \in BOOLEAN :
       IF tick.i <= Len(state.groups)
       THEN LET r == safe_send(int(state.groups[tick.i].key), tick.text, ok)
            IN /\ out' = [Out("periodic_send", NoUser, <<>>, <<r.sent>>, 0, r.exc)
                            EXCEPT !.job = tick.job]
               /\ tick' = IF tick.i >= Len(state.groups)
                          THEN IdleTick
                          ELSE [tick EXCEPT !.i = @ + 1]
       ELSE /\ out' = [Out("periodic_send", NoUser, <<>>, <<>>, 0, "RuntimeError")
                         EXCEPT !.job = tick.job]
            /\ tick' = IdleTick
  /\ UNCHANGED <<pc, state, disk, awaiting, jobs, broadcast_job, njobs,
                 faults_left, saving>>

\* A loop that reads the enabled flag before each send and returns once it
\* is off.
periodic_send_rechecks_flag ==
  /\ tick.pc = "sending"
  /\ \E ok \in BOOLEAN :
       LET r == safe_send(int(tick.snap[tick.i]), tick.text, ok)
       IN IF state.broadcasts_enabled
          THEN /\ out' = [Out("periodic_send", NoUser, <<>>, <<r.sent>>, 0, r.exc)
                            EXCEPT !.job = tick.job]
               /\ tick' = IF r.exc # "" \/ tick.i = Len(tick.snap)
                          THEN IdleTick
                          ELSE [tick EXCEPT !.i = @ + 1]
          ELSE /\ out' = [Out("periodic_send", NoUser, <<>>, <<>>, 0, "")
                            EXCEPT !.job = tick.job]
               /\ tick' = IdleTick
  /\ UNCHANGED <<pc, state, disk, awaiting, jobs, broadcast_job, njobs,
                 faults_left, saving>>

\* A loop that reads regular_message at each send.
periodic_send_live_text ==
  /\ tick.pc = "sending"
  /\ \E ok \in BOOLEAN :
       LET r == safe_send(int(tick.snap[tick.i]), state.regular_message, ok)
       IN /\ out' = [Out("periodic_send", NoUser, <<>>, <<r.sent>>, 0, r.exc)
                       EXCEPT !.job = tick.job]
          /\ tick' = IF r.exc # "" \/ tick.i = Len(tick.snap)
                     THEN IdleTick
                     ELSE [tick EXCEPT !.i = @ + 1]
  /\ UNCHANGED <<pc, state, disk, awaiting, jobs, broadcast_job, njobs,
                 faults_left, saving>>

\* One iteration of the loop of periodic_broadcast: the awaited send of the
\* next key of the snapshot completes, then the pause.
periodic_send ==
  /\ tick.pc = "sending"
  /\ \E ok \in BOOLEAN :
       LET r == safe_send(int(tick.snap[tick.i]), tick.text, ok)
       IN /\ out' = [Out("periodic_send", NoUser, <<>>, <<r.sent>>, 0, r.exc)
                       EXCEPT !.job = tick.job]
          /\ tick' = IF r.exc # "" \/ tick.i = Len(tick.snap)
                     THEN IdleTick
                     ELSE [tick EXCEPT !.i = @ + 1]
  /\ UNCHANGED <<pc, state, disk, awaiting, jobs, broadcast_job, njobs,
                 faults_left, saving>>

\* ------------------------------------------------------------- the registry

\* A call that leaves the registry as it is and saves nothing.
Untouched(groups) == [groups |-> groups, saves |-> FALSE, log |-> <<>>]

\* An add_group that stores and saves whatever the stored title is.
add_group_always_saves(groups, chat_id, title) ==
  [groups |-> DictSet(groups, str(chat_id), title), saves |-> TRUE,
   log |-> <<"added_group">>]

\* add_group: the title is stored and saved when it differs from the stored
\* one.  The result: the groups after it, whether it saves, and the line it
\* logs once the save has returned.
add_group(groups, chat_id, title) ==
  IF DictGet(groups, str(chat_id)) # title
  THEN [groups |-> DictSet(groups, str(chat_id), title), saves |-> TRUE,
        log |-> <<"added_group">>]
  ELSE Untouched(groups)

\* A remove_group that pops nothing.
remove_group_keeps(groups, chat_id) == Untouched(groups)

\* remove_group: the key is popped and the state saved when it is present.
remove_group(groups, chat_id) ==
  IF HasKey(groups, str(chat_id))
  THEN [groups |-> DictPop(groups, str(chat_id)), saves |-> TRUE,
        log |-> <<"removed_group">>]
  ELSE Untouched(groups)

\* on_bot_member_update: the bot's own membership in chat_id changed to
\* new_status.  A save that raises leaves the handler with the exception,
\* which the dispatcher logs.
on_bot_member_update(chat_id, chat_type, title, new_status) ==
  /\ pc = "running"
  /\ LET r == IF chat_type \in {"group", "supergroup"}
              THEN IF new_status \in {"member", "administrator"}
                   THEN add_group(state.groups, chat_id,
                                  IF title # "" THEN title ELSE str(chat_id))
                   ELSE IF new_status \in {"left", "kicked"}
                        THEN remove_group(state.groups, chat_id)
                        ELSE Untouched(state.groups)
              ELSE Untouched(state.groups)
         ev == [chat |-> chat_id, type |-> chat_type, status |-> new_status,
                title |-> title]
     IN /\ state' = [state EXCEPT !.groups = r.groups]
        /\ IF r.saves
           THEN \E ok \in SaveOutcomes :
                  /\ save(state', ok)
                  /\ out' = [Out("on_bot_member_update", NoUser,
                                 IF ok THEN r.log ELSE <<>>, <<>>, 0,
                                 IF ok THEN "" ELSE "OSError")
                               EXCEPT !.event = ev]
           ELSE /\ out' = [Out("on_bot_member_update", NoUser, <<>>, <<>>, 0, "")
                            EXCEPT !.event = ev]
                /\ UNCHANGED <<disk, faults_left, saving>>
  /\ UNCHANGED <<pc, awaiting, jobs, broadcast_job, njobs, tick>>

\* --------------------------------------------- Storage.save, step by step

\* The states that a handler's mutation makes of st before it calls save:
\* the toggle, a new regular message, a group added or removed.
Mutations(st) ==
  { [st EXCEPT !.broadcasts_enabled = ~@],
    [st EXCEPT !.regular_message = strip(" hey ")] }
  \cup { [st EXCEPT !.groups = add_group(@, c, "A").groups] :
           c \in {d \in ChatIds : add_group(st.groups, d, "A").saves} }
  \cup { [st EXCEPT !.groups = remove_group(@, c).groups] :
           c \in {d \in ChatIds : remove_group(st.groups, d).saves} }

\* The saves that may begin: the one of load when no state file exists, or
\* the one that follows a handler's mutation.
PendingSaves ==
  IF pc = "start" THEN IF disk.kind = "missing" THEN {state} ELSE {}
  ELSE IF pc = "running" THEN Mutations(state)
  ELSE {}

\* A save that opens the state file itself for writing.
save_open_in_place(st) ==
  /\ saving.pc = "idle"
  /\ state' = st
  /\ disk' = FileGarbage
  /\ saving' = [pc |-> "opened", tmp |-> saving.tmp, prev |-> disk]
  /\ out' = Out("save_open", NoUser, <<>>, <<>>, 0, "")
  /\ UNCHANGED <<pc, awaiting, jobs, broadcast_job, njobs, tick, faults_left>>

\* The state is st and save begins: open(tmp_path, "w") makes the temporary
\* file empty, which is no JSON document.
save_open(st) ==
  /\ saving.pc = "idle"
  /\ state' = st
  /\ disk' = disk
  /\ saving' = [pc |-> "opened", tmp |-> FileGarbage, prev |-> disk]
  /\ out' = Out("save_open", NoUser, <<>>, <<>>, 0, "")
  /\ UNCHANGED <<pc, awaiting, jobs, broadcast_job, njobs, tick, faults_left>>

\* json.dump returns and the with block closes the temporary file.
save_dump ==
  /\ saving.pc = "opened"
  /\ saving' = [saving EXCEPT !.pc = "written", !.tmp = JsonDump(state)]
  /\ out' = Out("save_dump", NoUser, <<>>, <<>>, 0, "")
  /\ UNCHANGED <<pc, state, disk, awaiting, jobs, broadcast_job, njobs, tick,
                 faults_left>>

\* os.replace(tmp_path, path): the temporary file becomes the state file in
\* one step.  The save of load returns into main().
save_replace ==
  /\ saving.pc = "written"
  /\ disk' = saving.tmp
  /\ saving' = [saving EXCEPT !.pc = "idle", !.tmp = FileMissing]
  /\ pc' = IF pc = "start" THEN "loaded" ELSE pc
  /\ out' = Out("save_replace", NoUser, <<>>, <<>>, 0, "")
  /\ UNCHANGED <<state, awaiting, jobs, broadcast_job, njobs, tick, faults_left>>

\* The process dies, at any point, and is started again: main() constructs
\* a fresh Storage; the two files stay as they are.
crash ==
  /\ pc # "crashed"
  /\ pc' = "start"
  /\ state' = BotState
  /\ awaiting' = [u \in Users |-> None]
  /\ jobs' = {}
  /\ broadcast_job' = 0
  /\ njobs' = 0
  /\ tick' = IdleTick
  /\ saving' = [saving EXCEPT !.pc = "idle"]
  /\ out' = Out("crash", NoUser, <<>>, <<>>, 0, "")
  /\ UNCHANGED <<disk, faults_left>>

\* ------------------------------------------------------------- the commands

\* A handler that returns without a change: only its replies are seen.
Replies(op, user_id, replies) ==
  /\ pc = "running"
  /\ out' = Out(op, user_id, replies, <<>>, 0, "")
  /\ UNCHANGED <<pc, state, disk, awaiting, jobs, broadcast_job, njobs, tick,
                 faults_left, saving>>

\* /start
start(user_id, chat_type) ==
  Replies("start", user_id,
          IF chat_type = "private"
          THEN IF is_owner(user_id) THEN show_owner_menu(user_id) ELSE <<"hello">>
          ELSE <<"alive">>)

\* /menu
menu_command(user_id) == Replies("menu_command", user_id, show_owner_menu(user_id))

\* /list_groups
list_groups(user_id) ==
  Replies("list_groups", user_id, IF is_owner(user_id) THEN <<"groups">> ELSE <<>>)

\* Unknown commands are ignored.
unknown(user_id) == Replies("unknown", user_id, <<>>)

\* A command's arguments: has_args is whether context.args is non-empty and
\* tail is message.text.partition(" ")[2] (empty when a line break, not a
\* space, follows the command).
CommandArgs ==
  { [has_args |-> FALSE, tail |-> ""],
    [has_args |-> TRUE, tail |-> " hey "],
    [has_args |-> TRUE, tail |-> ""] }

\* A /set_regular that, having stored the message, drops the pending intent.
set_regular_clears_intent(user_id, cmd) ==
  IF ~is_owner(user_id)
  THEN Replies("set_regular", user_id, <<>>)
  ELSE IF ~cmd.has_args
  THEN Replies("set_regular", user_id, <<"usage">>)
  ELSE IF strip(cmd.tail) = ""
  THEN Replies("set_regular", user_id, <<"provide_text">>)
  ELSE /\ pc = "running"
       /\ state' = [state EXCEPT !.regular_message = strip(cmd.tail)]
       /\ \E ok \in SaveOutcomes :
            /\ save(state', ok)
            /\ out' = IF ok
                      THEN Out("set_regular", user_id, <<"message_updated">>, <<>>, 0, "")
                      ELSE Out("set_regular", user_id, <<>>, <<>>, 0, "OSError")
       /\ awaiting' = [awaiting EXCEPT ![user_id] = None]
       /\ UNCHANGED <<pc, jobs, broadcast_job, njobs, tick>>

\* /set_regular <text>
set_regular(user_id, cmd) ==
  IF ~is_owner(user_id)
  THEN Replies("set_regular", user_id, <<>>)
  ELSE IF ~cmd.has_args
  THEN Replies("set_regular", user_id, <<"usage">>)
  ELSE IF strip(cmd.tail) = ""
  THEN Replies("set_regular", user_id, <<"provide_text">>)
  ELSE /\ pc = "running"
       /\ state' = [state EXCEPT !.regular_message = strip(cmd.tail)]
       /\ \E ok \in SaveOutcomes :
            /\ save(state', ok)
            /\ out' = IF ok
                      THEN Out("set_regular", user_id, <<"message_updated">>, <<>>, 0, "")
                      ELSE Out("set_regular", user_id, <<>>, <<>>, 0, "OSError")
       /\ UNCHANGED <<pc, awaiting, jobs, broadcast_job, njobs, tick>>

\* /send_broadcast <text>: the fan-out over a snapshot of the keys, then the
\* count.  An exception out of the loop leaves the handler before the reply.
send_broadcast(user_id, cmd) ==
  IF ~is_owner(user_id)
  THEN Replies("send_broadcast", user_id, <<>>)
  ELSE IF ~cmd.has_args
  THEN Replies("send_broadcast", user_id, <<"usage">>)
  ELSE IF strip(cmd.tail) = ""
  THEN Replies("send_broadcast", user_id, <<"provide_text">>)
  ELSE /\ pc = "running"
       /\ \E failing \in SUBSET Chats(state.groups) :
            LET r == FanOut(DictKeys(state.groups), strip(cmd.tail), failing,
                            NoAttempts)
            IN out' = Out("send_broadcast", user_id,
                          IF r.exc = "" THEN <<"broadcast_sent">> ELSE <<>>,
                          r.sent, r.count, r.exc)
       /\ UNCHANGED <<pc, state, disk, awaiting, jobs, broadcast_job, njobs,
                      tick, faults_left, saving>>

\* context.args of /toggle_broadcast: none, or a first argument.
ToggleArgs == {"", "on", "OFF", "maybe"}

\* /toggle_broadcast on|off
toggle_broadcast(user_id, arg) ==
  IF ~is_owner(user_id)
  THEN Replies("toggle_broadcast", user_id, <<>>)
  ELSE IF arg = "" \/ lower(arg) \notin {"on", "off"}
  THEN Replies("toggle_broadcast", user_id, <<"usage">>)
  ELSE /\ pc = "running"
       /\ state' = [state EXCEPT !.broadcasts_enabled = (lower(arg) = "on")]
       /\ \E ok \in SaveOutcomes :
            /\ save(state', ok)
            /\ out' = IF ok
                      THEN Out("toggle_broadcast", user_id, <<"toggled">>, <<>>, 0, "")
                      ELSE Out("toggle_broadcast", user_id, <<>>, <<>>, 0, "OSError")
       /\ UNCHANGED <<pc, awaiting, jobs, broadcast_job, njobs, tick>>

\* ------------------------------------------------------------- the buttons

\* The intent a prompt button sets.
PromptIntent(data) ==
  CASE data = "owner:send_now" -> "send_now_custom"
    [] data = "owner:edit_msg" -> "edit_msg"
    [] data = "owner:change_interval" -> "change_interval"

\* handle_owner_callback: the query is answered, then the owner's button is
\* served.
handle_owner_callback(user_id, data) ==
  IF ~is_owner(user_id)
  THEN Replies("handle_owner_callback", user_id, <<"callback_answer">>)
  ELSE IF data \in {"owner:send_now", "owner:edit_msg", "owner:change_interval"}
  THEN /\ pc = "running"
       /\ awaiting' = [awaiting EXCEPT ![user_id] = PromptIntent(data)]
       /\ out' = Out("handle_owner_callback", user_id,
                     <<"callback_answer", "prompt">>, <<>>, 0, "")
       /\ UNCHANGED <<pc, state, disk, jobs, broadcast_job, njobs, tick,
                      faults_left, saving>>
  ELSE IF data = "owner:toggle"
  THEN /\ pc = "running"
       /\ state' = [state EXCEPT !.broadcasts_enabled = ~state.broadcasts_enabled]
       /\ \E ok \in SaveOutcomes :
            /\ save(state', ok)
            /\ out' = IF ok
                      THEN Out("owner:toggle", user_id,
                               <<"callback_answer">> \o show_owner_menu(user_id),
                               <<>>, 0, "")
                      ELSE Out("owner:toggle", user_id, <<"callback_answer">>,
                               <<>>, 0, "OSError")
       /\ UNCHANGED <<pc, awaiting, jobs, broadcast_job, njobs, tick>>
  ELSE IF data = "owner:list_groups"
  THEN Replies("handle_owner_callback", user_id,
               <<"callback_answer", "groups">> \o show_owner_menu(user_id))
  ELSE IF data = "owner:refresh"
  THEN Replies("handle_owner_callback", user_id,
               <<"callback_answer">> \o show_owner_menu(user_id))
  ELSE Replies("handle_owner_callback", user_id, <<"callback_answer">>)

\* ----------------------------------------------------------- the free text

\* The check with minutes < 0 for minutes <= 0: a reply of 0 passes.
ValidMinutes_zero_passes(text) ==
  IsIntText(text) /\ ~(IntOfText(text) < 0 \/ IntOfText(text) > MaxMinutes)

\* Whether the change-interval reply text passes the check of
\* main.py:309-312: int(text) returns and 0 < minutes <= 24 * 60.
ValidMinutes(text) ==
  IsIntText(text) /\ ~(IntOfText(text) <= 0 \/ IntOfText(text) > MaxMinutes)

\* owner_text_input: a text message that is no command, in a chat of
\* chat_type.
owner_text_input(user_id, chat_type, raw) ==
  LET text == strip(raw)
      op == "owner_text_input"
  IN
  IF chat_type # "private" \/ ~is_owner(user_id)
  THEN Replies(op, user_id, <<>>)
  ELSE IF awaiting[user_id] = None
  THEN Replies(op, user_id, <<>>)
  ELSE IF awaiting[user_id] = "edit_msg"
  THEN IF text = ""
       THEN Replies(op, user_id, <<"empty_message">>)
       ELSE /\ pc = "running"
            /\ state' = [state EXCEPT !.regular_message = text]
            /\ \E ok \in SaveOutcomes :
                 /\ save(state', ok)
                 /\ awaiting' = IF ok THEN [awaiting EXCEPT ![user_id] = None]
                                ELSE awaiting
                 /\ out' = IF ok
                           THEN Out("edit_msg", user_id,
                                    <<"message_updated">> \o show_owner_menu(user_id),
                                    <<>>, 0, "")
                           ELSE Out("edit_msg", user_id, <<>>, <<>>, 0, "OSError")
            /\ UNCHANGED <<pc, jobs, broadcast_job, njobs, tick>>
  ELSE IF awaiting[user_id] = "change_interval"
  THEN IF ~ValidMinutes(text)
       THEN Replies(op, user_id, <<"invalid_interval">>)
       ELSE /\ pc = "running"
            /\ njobs < MaxJobs
            /\ state' = [state EXCEPT !.interval_seconds = IntOfText(text) * 60]
            /\ \E ok \in SaveOutcomes :
                 /\ save(state', ok)
                 /\ IF ok
                    THEN /\ reschedule_broadcast_job(state'.interval_seconds)
                         /\ awaiting' = [awaiting EXCEPT ![user_id] = None]
                         /\ out' = Out("change_interval", user_id,
                                       <<"interval_updated">> \o show_owner_menu(user_id),
                                       <<>>, 0, "")
                    ELSE /\ out' = Out("change_interval", user_id, <<>>, <<>>, 0,
                                       "OSError")
                         /\ UNCHANGED <<awaiting, jobs, broadcast_job, njobs>>
            /\ UNCHANGED <<pc, tick>>
  ELSE IF text = ""
       THEN Replies(op, user_id, <<"empty_message">>)
       ELSE /\ pc = "running"
            /\ \E failing \in SUBSET Chats(state.groups) :
                 LET r == FanOut(DictKeys(state.groups), text, failing, NoAttempts)
                 IN /\ awaiting' = IF r.exc = ""
                                   THEN [awaiting EXCEPT ![user_id] = None]
                                   ELSE awaiting
                    /\ out' = Out("send_now_custom", user_id,
                                  IF r.exc = ""
                                  THEN <<"custom_sent">> \o show_owner_menu(user_id)
                                  ELSE <<>>,
                                  r.sent, r.count, r.exc)
            /\ UNCHANGED <<pc, state, disk, jobs, broadcast_job, njobs, tick,
                           faults_left, saving>>

\* ------------------------------------------------------------ the behaviours

\* The start, the jobs that fire and the sends that complete.
System ==
  \/ load
  \/ build_application
  \/ periodic_broadcast
  \/ periodic_send

\* The bot joins and leaves the one group chat of ChatIds (SpecRegistry has
\* every chat type and status).
Membership ==
  \E c \in ChatIds, t \in Titles, st \in {"member", "left"} :
    on_bot_member_update(c, "supergroup", t, st)

\* The commands, button presses and texts of the users of U: every handler
\* that build_application registers.  A reply to a message prompt is drawn
\* from MessageTexts, a reply to the interval prompt from all of RawTexts.
Updates(U) ==
  \/ \E u \in U, ty \in {"private", "group"} : start(u, ty)
  \/ \E u \in U : menu_command(u)
  \/ \E u \in U : list_groups(u)
  \/ \E u \in U : unknown(u)
  \/ \E u \in U, cmd \in CommandArgs : set_regular(u, cmd)
  \/ \E u \in U, cmd \in CommandArgs : send_broadcast(u, cmd)
  \/ \E u \in U, arg \in ToggleArgs : toggle_broadcast(u, arg)
  \/ \E u \in U, data \in CallbackData : handle_owner_callback(u, data)
  \/ \E u \in U, ty \in {"private", "group"} :
       \E raw \in IF awaiting[u] = "change_interval" THEN RawTexts ELSE MessageTexts :
         owner_text_input(u, ty, raw)

\* The bot as its owner drives it, with saves that may fail.
Next ==
  \/ System
  \/ Membership
  \/ Updates(owner_ids)

Spec == Init /\ [][Next]_vars

\* The bot as an owner and a stranger drive it; no save fails.
InitAuth ==
  /\ pc = "start"
  /\ state = BotState
  /\ disk \in FreshFiles
  /\ awaiting = [u \in Users |-> None]
  /\ jobs = {}
  /\ broadcast_job = 0
  /\ njobs = 0
  /\ tick = IdleTick
  /\ faults_left = 0
  /\ saving = IdleSaving
  /\ out = NoOut

NextAuth ==
  \/ System
  \/ Membership
  \/ Updates(Users)

SpecAuth == InitAuth /\ [][NextAuth]_vars

\* The start from every state file of InitialFiles, followed by the
\* operations that read or set the interval and the enabled flag.
InitBoot ==
  /\ pc = "start"
  /\ state = BotState
  /\ disk \in InitialFiles
  /\ awaiting = [u \in Users |-> None]
  /\ jobs = {}
  /\ broadcast_job = 0
  /\ njobs = 0
  /\ tick = IdleTick
  /\ faults_left = MaxSaveFailures
  /\ saving = IdleSaving
  /\ out = NoOut

NextBoot ==
  \/ System
  \/ \E u \in owner_ids : menu_command(u)
  \/ \E u \in owner_ids, data \in {"owner:change_interval", "owner:toggle"} :
       handle_owner_callback(u, data)
  \/ \E u \in owner_ids, raw \in RawTexts : owner_text_input(u, "private", raw)

SpecBoot == InitBoot /\ [][NextBoot]_vars

\* The broadcasts over up to three groups: the groups join and leave, the
\* owner toggles the periodic broadcast and sends custom broadcasts, the job
\* fires.  No save fails.
InitBroadcast ==
  /\ pc = "start"
  /\ state = BotState
  /\ disk = FileMissing
  /\ awaiting = [u \in Users |-> None]
  /\ jobs = {}
  /\ broadcast_job = 0
  /\ njobs = 0
  /\ tick = IdleTick
  /\ faults_left = 0
  /\ saving = IdleSaving
  /\ out = NoOut

NextBroadcast ==
  \/ System
  \/ \E c \in BroadcastChatIds, t \in Titles, st \in {"member", "left"} :
       on_bot_member_update(c, "supergroup", t, st)
  \/ \E u \in owner_ids, cmd \in CommandArgs : send_broadcast(u, cmd)
  \/ \E u \in owner_ids, arg \in {"on", "off"} : toggle_broadcast(u, arg)
  \/ \E u \in owner_ids, data \in {"owner:send_now", "owner:toggle"} :
       handle_owner_callback(u, data)
  \/ \E u \in owner_ids, raw \in MessageTexts : owner_text_input(u, "private", raw)

SpecBroadcast == InitBroadcast /\ [][NextBroadcast]_vars

\* The saves step by step, with a crash at any point and the restart that
\* loads what the crash left.  No save fails.
InitCrash ==
  /\ pc = "start"
  /\ state = BotState
  /\ disk = FileMissing
  /\ awaiting = [u \in Users |-> None]
  /\ jobs = {}
  /\ broadcast_job = 0
  /\ njobs = 0
  /\ tick = IdleTick
  /\ faults_left = 0
  /\ saving = IdleSaving
  /\ out = NoOut

NextCrash ==
  \/ load
  \/ build_application
  \/ \E st \in PendingSaves : save_open(st)
  \/ save_dump
  \/ save_replace
  \/ crash

SpecCrash == InitCrash /\ [][NextCrash]_vars

\* The registry: the bot's membership of two chats changes, with every chat
\* type, status and title; saves may fail.
InitRegistry ==
  /\ pc = "start"
  /\ state = BotState
  /\ disk = FileMissing
  /\ awaiting = [u \in Users |-> None]
  /\ jobs = {}
  /\ broadcast_job = 0
  /\ njobs = 0
  /\ tick = IdleTick
  /\ faults_left = MaxSaveFailures
  /\ saving = IdleSaving
  /\ out = NoOut

NextRegistry ==
  \/ load
  \/ build_application
  \/ \E c \in RegistryChatIds, ty \in ChatTypes, t \in RegistryTitles,
        st \in Statuses :
       on_bot_member_update(c, ty, t, st)

SpecRegistry == InitRegistry /\ [][NextRegistry]_vars

\* A periodic fan-out over up to two groups in flight while groups join and
\* leave and the owner toggles the broadcast, edits the message and sends a
\* custom broadcast.  No save fails.
InitTick ==
  /\ pc = "start"
  /\ state = BotState
  /\ disk = FileMissing
  /\ awaiting = [u \in Users |-> None]
  /\ jobs = {}
  /\ broadcast_job = 0
  /\ njobs = 0
  /\ tick = IdleTick
  /\ faults_left = 0
  /\ saving = IdleSaving
  /\ out = NoOut

NextTick ==
  \/ System
  \/ \E c \in TickChatIds, t \in Titles, st \in {"member", "left"} :
       on_bot_member_update(c, "supergroup", t, st)
  \/ \E u \in owner_ids : set_regular(u, [has_args |-> TRUE, tail |-> " hey "])
  \/ \E u \in owner_ids, arg \in {"on", "off"} : toggle_broadcast(u, arg)
  \/ \E u \in owner_ids, data \in {"owner:send_now", "owner:edit_msg", "owner:toggle"} :
       handle_owner_callback(u, data)
  \/ \E u \in owner_ids, raw \in MessageTexts : owner_text_input(u, "private", raw)

SpecTick == InitTick /\ [][NextTick]_vars

\* The job queue with its clock: time passes, the job runs when it is due,
\* and the owner changes the interval at any moment.  No save fails.
InitClock ==
  /\ pc = "start"
  /\ state = BotState
  /\ disk = FileMissing
  /\ awaiting = [u \in Users |-> None]
  /\ jobs = {}
  /\ broadcast_job = 0
  /\ njobs = 0
  /\ tick = IdleTick
  /\ faults_left = 0
  /\ saving = IdleSaving
  /\ out = NoOut

NextClock ==
  \/ load
  \/ build_application
  \/ advance
  \/ run_due
  \/ \E u \in owner_ids : handle_owner_callback(u, "owner:change_interval")
  \/ \E u \in owner_ids, raw \in {"1", "1440", "abc"} :
       owner_text_input(u, "private", raw)

SpecClock == InitClock /\ [][NextClock]_vars

\* ---------------------------------------------------------------- the claims

Range(seq) == {seq[i] : i \in 1..Len(seq)}

\* C1: in every state at most one periodic_broadcast job is live, it is the
\* job that bot_data["broadcast_job"] holds, one is live once the bot runs,
\* and a job that fires is that job: a job retired by a reschedule fires no
\* more.
C1_OneLiveBroadcastJob ==
  /\ Cardinality(jobs) <= 1
  /\ \A j \in jobs : j.id = broadcast_job
  /\ (pc = "running" => jobs # {})
  /\ (out.op = "periodic_broadcast" => out.job = broadcast_job)

\* C1: the job of the second reschedule has fired.
C1_SecondJobFired ==
  /\ njobs = 2
  /\ out.op = "periodic_broadcast"
  /\ out.job = 2

\* C2: in every state, the state after load included, interval_seconds is
\* between 60 and 86400, and so is the period of every scheduled job.
C2_IntervalInRange ==
  /\ 60 <= state.interval_seconds
  /\ state.interval_seconds <= MaxMinutes * 60
  /\ \A j \in jobs : 60 <= j.interval /\ j.interval <= MaxMinutes * 60

\* The handler state a step may change, the outputs aside.
core == <<pc, state, disk, awaiting, jobs, broadcast_job, njobs, tick,
          faults_left, saving>>

\* Whether raw stands for an integer number of minutes from 1 to 1440.
InRangeMinutes(raw) ==
  /\ IsIntText(strip(raw))
  /\ 1 <= IntOfText(strip(raw))
  /\ IntOfText(strip(raw)) <= 1440

\* A private text raw of owner u while the pending intent is change-interval.
IntervalReply(u, raw) ==
  /\ awaiting[u] = "change_interval"
  /\ out'.actor = u
  /\ owner_text_input(u, "private", raw)

\* What the claim says an accepted reply of m minutes does.
IntervalTakesEffect(u, raw) ==
  /\ state'.interval_seconds = IntOfText(strip(raw)) * 60
  /\ disk' = JsonDump(state')
  /\ broadcast_job' # broadcast_job
  /\ \E j \in jobs' : j.id = broadcast_job' /\ j.interval = IntOfText(strip(raw)) * 60
  /\ awaiting'[u] = None

\* C3: a reply to the interval prompt is accepted exactly when it stands for
\* an integer from 1 to 1440; an accepted reply sets interval_seconds to
\* m * 60, persists the state, reschedules the job with that period and
\* clears the pending intent; a rejected one changes none of these.
C3_IntervalReplyAccepted ==
  [][\A u \in owner_ids, raw \in RawTexts :
       IntervalReply(u, raw) =>
         IF InRangeMinutes(raw)
         THEN IntervalTakesEffect(u, raw)
         ELSE /\ UNCHANGED <<state, disk, jobs, broadcast_job, awaiting>>
              /\ out'.replies = <<"invalid_interval">>]_vars

\* C3, for the replies whose save returns: the statement above holds of
\* every reply during which no save fails.
C3_IntervalReplySaved ==
  [][\A u \in owner_ids, raw \in RawTexts :
       IntervalReply(u, raw) /\ faults_left' = faults_left =>
         IF InRangeMinutes(raw)
         THEN IntervalTakesEffect(u, raw)
         ELSE /\ UNCHANGED <<state, disk, jobs, broadcast_job, awaiting>>
              /\ out'.replies = <<"invalid_interval">>]_vars

\* A reply that the input validation of owner_text_input rejects.
ValidationError(u, raw) ==
  \/ awaiting[u] \in {"edit_msg", "send_now_custom"} /\ strip(raw) = ""
  \/ awaiting[u] = "change_interval" /\ ~InRangeMinutes(raw)

\* C4: a reply that fails the input validation gets the corrective prompt
\* and changes nothing: the pending intent, BotState, the file and the jobs
\* stay as they are and no group is sent to.
C4_ValidationErrorChangesNothing ==
  [][\A u \in owner_ids, raw \in RawTexts :
       (/\ out'.actor = u
        /\ ValidationError(u, raw)
        /\ owner_text_input(u, "private", raw)) =>
         /\ UNCHANGED core
         /\ out'.sent = <<>>
         /\ out'.replies \in {<<"empty_message">>, <<"invalid_interval">>}]_vars

\* C4: an interval reply was rejected and the intent is still pending.
C4_RejectedReplyPending ==
  /\ out.op = "owner_text_input"
  /\ out.replies = <<"invalid_interval">>
  /\ awaiting[out.actor] = "change_interval"

\* A privileged command, a button press or a free text of user u.
PrivilegedStep(u) ==
  \/ menu_command(u)
  \/ list_groups(u)
  \/ \E cmd \in CommandArgs : set_regular(u, cmd)
  \/ \E cmd \in CommandArgs : send_broadcast(u, cmd)
  \/ \E arg \in ToggleArgs : toggle_broadcast(u, arg)
  \/ \E data \in CallbackData : handle_owner_callback(u, data)
  \/ \E ty \in ChatTypes, raw \in RawTexts : owner_text_input(u, ty, raw)

\* C5: a privileged command, button press or free text of a user that is no
\* owner changes nothing (BotState, the file, the pending intents, the
\* jobs), sends to no group and gets no reply beyond the answer that ends
\* the button's query.
C5_NonOwnerChangesNothing ==
  [][\A u \in Users \ owner_ids :
       (out'.actor = u /\ PrivilegedStep(u)) =>
         /\ UNCHANGED core
         /\ out'.sent = <<>>
         /\ out'.replies \in {<<>>, <<"callback_answer">>}]_vars

\* C5: a user that is no owner sent /toggle_broadcast while an owner's
\* intent was pending.
C5_StrangerToggled ==
  /\ out.actor \notin owner_ids
  /\ out.op = "toggle_broadcast"
  /\ \E u \in owner_ids : awaiting[u] # None

\* C6: a fire that finds broadcasts_enabled false sends nothing and starts
\* no fan-out; a fire that finds it true starts a fan-out of
\* regular_message over all the groups tracked at the fire, and every step
\* of that fan-out attempts the next group of it with that text until the
\* last one is attempted.
C6_FireObeysEnabledFlag ==
  [][/\ periodic_broadcast =>
          /\ out'.sent = <<>>
          /\ tick' = IF state.broadcasts_enabled /\ state.groups # <<>>
                     THEN [pc |-> "sending", job |-> out'.job,
                           snap |-> [i \in 1..Len(state.groups) |-> state.groups[i].key],
                           i |-> 1, text |-> state.regular_message]
                     ELSE IdleTick
     /\ periodic_send =>
          /\ Len(out'.sent) = 1
          /\ out'.sent[1].chat = int(tick.snap[tick.i])
          /\ out'.sent[1].text = tick.text
          /\ tick' = IF tick.i < Len(tick.snap)
                     THEN [tick EXCEPT !.i = tick.i + 1]
                     ELSE IdleTick]_vars

\* C6: the job fired while three groups were tracked and periodic
\* broadcasting was off.
C6_FiredWhileDisabled ==
  /\ out.op = "periodic_broadcast"
  /\ ~state.broadcasts_enabled
  /\ Len(state.groups) = 3
  /\ tick.pc = "idle"

\* The latest step was the fan-out of /send_broadcast or of a send-now reply.
FannedOut ==
  /\ out.op \in {"send_broadcast", "send_now_custom"}
  /\ out.actor \in owner_ids
  /\ out.replies \notin {<<"usage">>, <<"provide_text">>}

\* C7: whichever sends fail, a broadcast attempts every recipient in order,
\* ends without an exception and reports the number of recipients; a failed
\* send of a periodic broadcast raises nothing either.
C7_FailedSendsDoNotAbort ==
  /\ FannedOut =>
       /\ out.exc = ""
       /\ out.count = Len(state.groups)
       /\ Len(out.sent) = Len(state.groups)
       /\ \A i \in 1..Len(out.sent) : out.sent[i].chat = int(state.groups[i].key)
       /\ out.replies # <<>>
  /\ out.op = "periodic_send" => out.exc = ""

\* C7: a broadcast over three groups whose second send failed reported 3.
C7_SecondOfThreeFailed ==
  /\ FannedOut
  /\ Len(out.sent) = 3
  /\ out.sent[1].ok /\ ~out.sent[2].ok /\ out.sent[3].ok
  /\ out.count = 3

\* The latest step told of a completed mutation: the acknowledgement of a
\* message edit, an interval change or a toggle to the owner, or the log
\* line of a group added, updated or removed.
Acknowledged ==
  \/ Range(out.replies) \cap {"message_updated", "interval_updated", "toggled",
                              "added_group", "removed_group"} # {}
  \/ out.op = "owner:toggle" /\ "menu" \in Range(out.replies)

\* C8: whenever a mutation is acknowledged, the file holds the in-memory
\* state.
C8_PersistedBeforeAcknowledged == Acknowledged => disk = JsonDump(state)

\* C8: a message edit was acknowledged after an earlier save had failed.
C8_EditAcknowledged ==
  /\ out.op = "edit_msg"
  /\ "message_updated" \in Range(out.replies)
  /\ state.regular_message = "hey"
  /\ faults_left = 0

\* C9: when the save of an owner's action fails, the owner is told that the
\* change failed.
C9_SaveFailureSurfaced ==
  (out.exc = "OSError" /\ out.actor \in owner_ids)
    => "change_failed" \in Range(out.replies)

\* C10: after load the state file exists and holds the in-memory state.
C10_LoadLeavesFileInStep ==
  pc = "loaded" =>
    /\ disk.kind = "object"
    /\ ~LoadRaises(disk)
    /\ LoadedState(disk) = state

\* C10: load does not end the process.
C10_LoadNeverFails == pc # "crashed"

\* Whether file is a complete version of the state file: a JSON object with
\* the four fields, which load reads back as it was dumped.
CompleteVersion(file) ==
  /\ file.kind = "object"
  /\ ~LoadRaises(file)
  /\ JsonDump(LoadedState(file)) = file

\* C11: at every point of a save, and after a crash at any of them, the
\* state file is the complete version that the save found (none before the
\* first save) or, from the rename on, the complete new version; the next
\* load reads it back.
C11_StateFileNeverHalfWritten ==
  /\ disk.kind = "missing" \/ CompleteVersion(disk)
  /\ saving.pc \in {"opened", "written"} => disk = saving.prev
  /\ out.op = "save_replace" => disk = JsonDump(state)
  /\ (pc = "loaded" /\ disk.kind = "object") => state = LoadedState(disk)

\* C11: the process died between the write of the temporary file and the
\* rename, with an earlier version in the state file.
C11_CrashedBeforeRename ==
  /\ out.op = "crash"
  /\ saving.tmp.kind = "object"
  /\ disk.kind = "object"
  /\ saving.tmp # disk
  /\ disk = saving.prev

\* The latest step served a my_chat_member update.
MemberUpdate == out.op = "on_bot_member_update"

\* The title that on_bot_member_update passes on for the update e.
IncomingTitle(e) == IF e.title # "" THEN e.title ELSE str(e.chat)

\* Whether the update e reaches add_group, and whether it reaches
\* remove_group.
Joins(e) ==
  e.type \in {"group", "supergroup"} /\ e.status \in {"member", "administrator"}

Leaves(e) ==
  e.type \in {"group", "supergroup"} /\ e.status \in {"left", "kicked"}

\* C12: a membership update calls save exactly when it adds a group whose
\* stored title differs from the incoming one (none stored included) or
\* removes a group that is tracked; in particular a repeated add with the
\* same id and title saves nothing.  A step that does not save leaves the
\* file alone.
C12_SavesOnlyOnChange ==
  [][MemberUpdate' =>
       LET e == out'.event
           saved == out'.replies # <<>> \/ out'.exc = "OSError"
       IN /\ saved <=>
               \/ Joins(e) /\ DictGet(state.groups, str(e.chat)) # IncomingTitle(e)
               \/ Leaves(e) /\ HasKey(state.groups, str(e.chat))
          /\ ~saved => UNCHANGED <<state, disk, faults_left>>
          /\ (saved /\ out'.exc = "") => disk' = JsonDump(state')]_vars

\* C12: an add of a tracked group with the title it has saved nothing.
C12_RepeatedAddSavedNothing ==
  /\ MemberUpdate
  /\ Joins(out.event)
  /\ out.event.title = "B"
  /\ DictGet(state.groups, str(out.event.chat)) = "B"
  /\ out.replies = <<>>
  /\ out.exc = ""

\* The chats that are tracked.
Tracked(groups) == {c \in RegistryChatIds : HasKey(groups, str(c))}

\* C13: an update of a group with status member or administrator leaves it
\* tracked, one with status left or kicked leaves it untracked, and no other
\* chat changes with it; an update with any other status, or of a chat that
\* is no group, changes neither the registry nor the file; no other step
\* changes which chats are tracked.
C13_TrackedFollowsLastStatus ==
  [][IF MemberUpdate'
     THEN LET e == out'.event
          IN /\ Joins(e) => Tracked(state'.groups) = Tracked(state.groups) \cup {e.chat}
             /\ Leaves(e) => Tracked(state'.groups) = Tracked(state.groups) \ {e.chat}
             /\ ~(Joins(e) \/ Leaves(e)) => UNCHANGED <<state, disk>>
     ELSE Tracked(state'.groups) = Tracked(state.groups)]_vars

\* C13: a tracked group's update with status restricted was ignored after
\* the other group had left.
C13_RestrictedIgnored ==
  /\ MemberUpdate
  /\ out.event.status = "restricted"
  /\ out.event.type = "supergroup"
  /\ Tracked(state.groups) = {out.event.chat}
  /\ state.groups[1].title = "B"

\* The chats of the attempts, in order.
SentChats(sent) == [i \in 1..Len(sent) |-> sent[i].chat]

\* The chats behind a sequence of keys, in order.
KeyChats(keys) == [i \in 1..Len(keys) |-> int(keys[i])]

\* C14: a fire takes the keys of the registry as its snapshot; each send of
\* the run attempts the next key of that snapshot, whatever the registry
\* has become, and raises nothing, so every key of the snapshot is
\* attempted once and no other; no step but the run's own changes the run;
\* a custom broadcast attempts the keys of the registry it finds, once
\* each, and raises nothing.
C14_FanOutOverSnapshot ==
  [][/\ (out'.op = "periodic_broadcast" /\ tick'.pc = "sending") =>
          tick'.snap = DictKeys(state.groups) /\ tick'.i = 1
     /\ out'.op = "periodic_send" =>
          /\ tick.pc = "sending"
          /\ SentChats(out'.sent) = <<int(tick.snap[tick.i])>>
          /\ out'.exc = ""
          /\ tick' = IF tick.i < Len(tick.snap)
                     THEN [tick EXCEPT !.i = tick.i + 1]
                     ELSE IdleTick
     /\ out'.op \notin {"periodic_broadcast", "periodic_send"} => tick' = tick
     /\ (out'.op \in {"send_broadcast", "send_now_custom"}
           /\ out'.replies \notin {<<"usage">>, <<"provide_text">>}) =>
          /\ SentChats(out'.sent) = KeyChats(DictKeys(state.groups))
          /\ out'.exc = ""]_vars

\* C14: the last send of a run went to a group that had left during the
\* run, while another group is tracked.
C14_SentToGroupThatLeft ==
  /\ out.op = "periodic_send"
  /\ tick.pc = "idle"
  /\ state.groups # <<>>
  /\ out.sent[1].chat \notin Chats(state.groups)

\* C19: a run starts only from a fire that finds the flag on; a toggle
\* during a run leaves the run as it is; each step of a run sends, and goes
\* on to the next key of its snapshot, whatever the flag is by then.
C19_FlagReadOnlyAtFire ==
  [][/\ (out'.op = "periodic_broadcast" /\ tick'.pc = "sending") =>
          state.broadcasts_enabled
     /\ (tick.pc = "sending" /\ state'.broadcasts_enabled # state.broadcasts_enabled) =>
          tick' = tick
     /\ out'.op = "periodic_send" =>
          /\ Len(out'.sent) = 1
          /\ tick.i < Len(tick.snap) => tick'.pc = "sending"]_vars

\* C19: a periodic send went out while broadcasts_enabled was false, and the
\* run goes on.
C19_SentWhileDisabled ==
  /\ out.op = "periodic_send"
  /\ Len(out.sent) = 1
  /\ ~state.broadcasts_enabled
  /\ tick.pc = "sending"

\* C20: a run takes regular_message at its fire, keeps that text until it
\* ends, and every send of it carries that text.
C20_TickTextFixedAtFire ==
  [][/\ (out'.op = "periodic_broadcast" /\ tick'.pc = "sending") =>
          tick'.text = state.regular_message
     /\ (tick.pc = "sending" /\ tick'.pc = "sending") => tick'.text = tick.text
     /\ out'.op = "periodic_send" =>
          \A i \in 1..Len(out'.sent) : out'.sent[i].text = tick.text]_vars

\* C20: the second send of a run carried the text of the fire after the
\* owner had changed regular_message.
C20_SentOldTextAfterEdit ==
  /\ out.op = "periodic_send"
  /\ tick.pc = "idle"
  /\ Len(out.sent) = 1
  /\ out.sent[1].text = DefaultMessage
  /\ state.regular_message = "hey"
  /\ Len(state.groups) = 2
  /\ out.sent[1].chat = int(state.groups[2].key)

\* Quiescence: the bot runs, no periodic run is in flight and no save is in
\* progress.
Quiescent == pc = "running" /\ tick.pc = "idle" /\ saving.pc = "idle"

\* C15: once all operations have completed, the file that a save has
\* written holds the in-memory state.
C15_NoLostUpdate == (Quiescent /\ disk.kind = "object") => disk = JsonDump(state)

\* A private text raw of owner u that is accepted as the reply to the
\* pending prompt.
AcceptedReply(u, raw) ==
  /\ awaiting[u] # None
  /\ out'.actor = u
  /\ ~ValidationError(u, raw)
  /\ owner_text_input(u, "private", raw)

\* C16: every pending intent is one of the four values; a prompt button sets
\* the owner's intent to the one of the button, whatever was pending, and
\* performs nothing; an accepted reply performs the pending intent, and only
\* it, and leaves no intent pending.
C16_IntentLifecycle ==
  [][\A u \in owner_ids :
       /\ awaiting'[u] \in {None, "edit_msg", "change_interval", "send_now_custom"}
       /\ \A data \in {"owner:send_now", "owner:edit_msg", "owner:change_interval"} :
            (out'.actor = u /\ handle_owner_callback(u, data)) =>
              /\ awaiting'[u] = CASE data = "owner:send_now" -> "send_now_custom"
                                  [] data = "owner:edit_msg" -> "edit_msg"
                                  [] data = "owner:change_interval" -> "change_interval"
              /\ UNCHANGED <<state, disk, jobs, broadcast_job>>
              /\ out'.sent = <<>>
       /\ \A raw \in RawTexts :
            AcceptedReply(u, raw) =>
              /\ awaiting'[u] = None
              /\ CASE awaiting[u] = "edit_msg" ->
                        /\ state' = [state EXCEPT !.regular_message = strip(raw)]
                        /\ out'.sent = <<>>
                        /\ UNCHANGED <<jobs, broadcast_job>>
                   [] awaiting[u] = "change_interval" ->
                        /\ state' = [state EXCEPT
                                       !.interval_seconds = IntOfText(strip(raw)) * 60]
                        /\ out'.sent = <<>>
                   [] awaiting[u] = "send_now_custom" ->
                        /\ UNCHANGED <<state, disk, jobs, broadcast_job>>
                        /\ SentChats(out'.sent) = KeyChats(DictKeys(state.groups))
                        /\ \A i \in 1..Len(out'.sent) : out'.sent[i].text = strip(raw)]_vars

\* The runs that the claim's timing gives a job at its age: one at 60
\* seconds and one every interval after that.
ExpectedRuns(j) == IF j.age < 60 THEN 0 ELSE ((j.age - 60) \div j.interval) + 1

\* C17: a job installed by a reschedule starts at age 0 whatever the retired
\* job's age; it has not run before it is 60 seconds old, and from then on
\* it has run once at 60 seconds and once every interval after that, the
\* run of the present moment aside; a run happens at those moments only.
C17_FirstRunAfterSixtySeconds ==
  \A j \in jobs :
    /\ j.runs \in {ExpectedRuns(j) - 1, ExpectedRuns(j)}
    /\ j.runs < ExpectedRuns(j) => (j.age - 60) % j.interval = 0
    /\ j.age < 60 => j.runs = 0
    /\ (out.op = "periodic_broadcast" /\ out.job = j.id) =>
         /\ j.age >= 60
         /\ (j.age - 60) % j.interval = 0
         /\ j.runs = ExpectedRuns(j)
    /\ out.op \in {"build_application", "change_interval"} =>
         j.age = 0 /\ j.runs = 0

\* C17: the job of a reschedule to 1440 minutes had its first run at the
\* age of 60 seconds.
C17_RescheduledJobRanAtSixty ==
  /\ out.op = "periodic_broadcast"
  /\ out.job = 2
  /\ \E j \in jobs :
       j.id = 2 /\ j.interval = 86400 /\ j.age = 60 /\ j.runs = 1

\* C18: while the bot runs and no handler is in progress, the period of the
\* job that bot_data holds is interval_seconds.
C18_JobPeriodIsInterval ==
  pc = "running" =>
    \A j \in jobs : j.id = broadcast_job => j.interval = state.interval_seconds

\* A press by user u of one of the three buttons that prompt for a text.
PromptPress(u) ==
  \E data \in {"owner:send_now", "owner:edit_msg", "owner:change_interval"} :
    handle_owner_callback(u, data)

\* C21: a user's pending intent changes only in a step of that user, who is
\* an owner, that is a press of a prompt button or an accepted private
\* text; every other step (a command, another button, a text in a group, a
\* rejected text, a membership update, a fire or send of the job, any step
\* of another user) leaves it as it was.
C21_IntentChangesOnlyByPromptOrReply ==
  [][\A u \in Users :
       awaiting'[u] # awaiting[u] =>
         /\ u \in owner_ids
         /\ out'.actor = u
         /\ \/ PromptPress(u)
            \/ \E raw \in RawTexts : AcceptedReply(u, raw)]_vars

\* C21: /set_regular stored a new message while the owner's change-interval
\* prompt was pending, and the prompt is pending still.
C21_IntentSurvivedCommand ==
  /\ out.op = "set_regular"
  /\ out.actor \in owner_ids
  /\ out.replies = <<"message_updated">>
  /\ awaiting[out.actor] = "change_interval"

=============================================================================
